---- MODULE Spec2Model ----
(***************************************************************************)
(* Model of the chat routes in backend/routes/chat.py: the POST chat turn  *)
(* (chat), the conversation listing (get_user_conversations) and the       *)
(* message listing (get_conversation_messages), running as concurrent      *)
(* requests against one shared conversation/message store.                 *)
(*                                                                         *)
(* Python values are tagged records so that None, strings, ints and lists  *)
(* can be told apart.  A string is kept run-length encoded (a sequence of  *)
(* [ch, n] runs, adjacent runs having different characters and n > 0), so  *)
(* that len(), slicing and concatenation are computed exactly for texts of *)
(* 1000 characters.                                                        *)
(*                                                                         *)
(* Requests are served by any number of workers over one database, so the  *)
(* unit of interleaving is one store call: a handler runs from one store   *)
(* call to the next in a single step.  The repositories and the agent are  *)
(* imported by chat.py and not part of it: the store is a table of rows in *)
(* write order whose ids count from 1 and whose created_at is read from a  *)
(* clock that never runs backwards, the agent returns any result or raises.*)
(* The field turn of a row is not stored data: it records the request that *)
(* wrote the row.                                                          *)
(***************************************************************************)
EXTENDS Integers, Sequences, FiniteSets, TLC

\* ---------------------------------------------------------------- bounds
MaxReqs == 2          \* number of requests in one behaviour
MaxTicks == 1         \* how many times the store's clock may advance

\* ------------------------------------------------------ program constants
MaxMessageLen == 1000
TitleLen == 50
MicrosPerSecond == 1000000
HTTP_200_OK == 200
HTTP_400_BAD_REQUEST == 400
HTTP_403_FORBIDDEN == 403
HTTP_404_NOT_FOUND == 404
HTTP_500_INTERNAL_SERVER_ERROR == 500

\* ---------------------------------------------------------- Python values
None == [tag |-> "None"]
Missing == [tag |-> "missing"]
PyStr(runs) == [tag |-> "str", runs |-> runs]
PyInt(i) == [tag |-> "int", v |-> i]
PyList(items) == [tag |-> "list", items |-> items]

Repeat(c, n) == IF n = 0 THEN PyStr(<<>>) ELSE PyStr(<<[ch |-> c, n |-> n]>>)

RECURSIVE RunsLen(_)
RunsLen(runs) == IF runs = <<>> THEN 0 ELSE Head(runs).n + RunsLen(Tail(runs))

\* len(s)
PyLen(s) == RunsLen(s.runs)

RECURSIVE RunsTake(_, _)
RunsTake(runs, k) ==
    IF k <= 0 \/ runs = <<>> THEN <<>>
    ELSE IF Head(runs).n <= k
         THEN <<Head(runs)>> \o RunsTake(Tail(runs), k - Head(runs).n)
         ELSE <<[ch |-> Head(runs).ch, n |-> k]>>

\* s[:k]
PySlice(s, k) == PyStr(RunsTake(s.runs, k))

\* a + b
PyConcat(a, b) ==
    IF a.runs = <<>> THEN b
    ELSE IF b.runs = <<>> THEN a
    ELSE LET la == a.runs[Len(a.runs)]
             hb == Head(b.runs)
         IN IF la.ch = hb.ch
            THEN PyStr(SubSeq(a.runs, 1, Len(a.runs) - 1)
                     \o <<[ch |-> la.ch, n |-> la.n + hb.n]>>
                     \o Tail(b.runs))
            ELSE PyStr(a.runs \o b.runs)

\* truth value of a Python object, as used by `if x:` and `not x`
Truthy(v) ==
    CASE v.tag = "None" -> FALSE
      [] v.tag = "str"  -> v.runs # <<>>
      [] v.tag = "int"  -> v.v # 0
      [] v.tag = "list" -> v.items # <<>>

\* dict.get(key, default): the default is used only when the key is missing
DictGet(d, key, default) == IF d[key] = Missing THEN default ELSE d[key]

\* ------------------------------------------------------------ input sets
Reqs == 1..MaxReqs
\* (path user_id, token sub)
Identities == {<<"A", "A">>, <<"B", "B">>, <<"A", "B">>}
TextLens == {0, TitleLen, TitleLen + 1, MaxMessageLen, MaxMessageLen + 1}
MessageInputs == {None} \cup {Repeat("a", n) : n \in TextLens}
ConversationIdInputs == {None} \cup {PyInt(i) : i \in 0..MaxReqs}
PathConversationIds == 0..MaxReqs
AgentResults ==
    { [response |-> Missing, tool_calls |-> Missing, tool_results |-> Missing],
      [response |-> None, tool_calls |-> PyList(<<>>), tool_results |-> PyList(<<>>)],
      [response |-> Repeat("r", 2), tool_calls |-> PyList(<<"add_task">>),
       tool_results |-> PyList(<<"created">>)] }

VARIABLES
    conversations,   \* ConversationStore: sequence of rows, id = position
    messages,        \* MessageStore: sequence of rows in write order, id = position
    now,             \* the store's clock, in microseconds
    ticks,           \* how often the clock has advanced
    pc,              \* pc[r]: where request r stands
    request,         \* request[r]: what the caller sent
    local,           \* local[r]: the handler's local variables
    response,        \* response[r]: what the caller got back
    agent_log        \* the calls of TodoAgent.process_message, in order

vars == <<conversations, messages, now, ticks, pc, request, local, response, agent_log>>

NoRequest == [kind |-> "none", user_id |-> "", sub |-> "",
              message |-> None, conversation_id |-> None]
NoLocal == [conversation |-> 0, user_db_message |-> 0,
            conversation_history |-> <<>>, result |-> None]
NoResponse == [status |-> 0, error |-> "", data |-> None]

Init ==
    /\ conversations = <<>>
    /\ messages = <<>>
    /\ now = MicrosPerSecond - 1
    /\ ticks = 0
    /\ pc = [r \in Reqs |-> "idle"]
    /\ request = [r \in Reqs |-> NoRequest]
    /\ local = [r \in Reqs |-> NoLocal]
    /\ response = [r \in Reqs |-> NoResponse]
    /\ agent_log = <<>>

\* ------------------------------------------------------------- the stores
\* The clock read by a store write: it may have advanced since the last one.
Advance == IF ticks < MaxTicks THEN {0, 1} ELSE {0}

\* repositories.conversation_repository.get_conversation_by_id
ConversationExists(id) == id \in 1..Len(conversations)
get_conversation_by_id(id) == conversations[id]

\* repositories.conversation_repository.create_conversation
create_conversation(title, user_id, t, r) ==
    Append(conversations,
           [id |-> Len(conversations) + 1, user_id |-> user_id, title |-> title,
            created_at |-> t, turn |-> r])

\* repositories.conversation_repository.get_conversations_by_user_id
get_conversations_by_user_id(user_id) ==
    SelectSeq(conversations, LAMBDA c : c.user_id = user_id)

\* repositories.message_repository.create_message
create_message(message_create, user_id, t, r) ==
    Append(messages,
           [id |-> Len(messages) + 1,
            conversation_id |-> message_create.conversation_id,
            user_id |-> user_id,
            role |-> message_create.role,
            content |-> message_create.content,
            created_at |-> t, turn |-> r])

\* ORDER BY created_at of the message store: rows with equal created_at stay in
\* write order
RECURSIVE InsertByCreatedAt(_, _)
InsertByCreatedAt(x, sorted) ==
    IF sorted = <<>> THEN <<x>>
    ELSE IF x.created_at < Head(sorted).created_at THEN <<x>> \o sorted
    ELSE <<Head(sorted)>> \o InsertByCreatedAt(x, Tail(sorted))

RECURSIVE OrderByCreatedAt(_)
OrderByCreatedAt(rows) ==
    IF rows = <<>> THEN <<>>
    ELSE InsertByCreatedAt(rows[Len(rows)],
                           OrderByCreatedAt(SubSeq(rows, 1, Len(rows) - 1)))

\* repositories.message_repository.get_messages_by_conversation_id
get_messages_by_conversation_id(conversation_id) ==
    OrderByCreatedAt(SelectSeq(messages, LAMBDA m : m.conversation_id = conversation_id))

\* ------------------------------------------------------- POST /{user_id}/chat
\* the identity check left out
IdentityMatches_Unchecked(user_id, sub) == TRUE

\* line 51: the path user must be the token subject
IdentityMatches(user_id, sub) == user_id = sub

\* the length check off by one: `len(user_message) >= 1000`
MessageStatus_OffByOne(user_message) ==
    IF ~Truthy(user_message) THEN HTTP_400_BAD_REQUEST
    ELSE IF PyLen(user_message) >= MaxMessageLen THEN HTTP_400_BAD_REQUEST
    ELSE 0

\* lines 61-72: 0 when the message is acceptable, else the status raised
MessageStatus(user_message) ==
    IF ~Truthy(user_message) THEN HTTP_400_BAD_REQUEST
    ELSE IF PyLen(user_message) > MaxMessageLen THEN HTTP_400_BAD_REQUEST
    ELSE 0

\* line 75: `if conversation_id:`
ConversationSupplied(conversation_id) == Truthy(conversation_id)

\* the owner comparison left out: `if not existing_conversation:`
ConversationStatus_ExistsOnly(id, user_id) ==
    IF ~ConversationExists(id) THEN HTTP_404_NOT_FOUND ELSE 0

\* the two failures told apart: 404 for an absent conversation, 403 for a
\* conversation of another owner
ConversationStatus_Forbidden(id, user_id) ==
    IF ~ConversationExists(id) THEN HTTP_404_NOT_FOUND
    ELSE IF get_conversation_by_id(id).user_id # user_id THEN HTTP_403_FORBIDDEN
    ELSE 0

\* line 78 (and 220): 0 when the conversation may be used, else the status raised
ConversationStatus(id, user_id) ==
    IF ~ConversationExists(id) \/ get_conversation_by_id(id).user_id # user_id
    THEN HTTP_404_NOT_FOUND
    ELSE 0

\* the truncation marker left out: `user_message[:50]`
Title_NoMarker(user_message) ==
    IF PyLen(user_message) > TitleLen
    THEN PySlice(user_message, TitleLen)
    ELSE user_message

\* line 87
Title(user_message) ==
    IF PyLen(user_message) > TitleLen
    THEN PyConcat(PySlice(user_message, TitleLen), Repeat(".", 3))
    ELSE user_message

Fail(r, status, error) ==
    /\ pc' = [pc EXCEPT ![r] = "done"]
    /\ response' = [response EXCEPT ![r] = [status |-> status, error |-> error,
                                            data |-> None]]

\* lines 50-89: the request checks, then the conversation is resolved or created
ChatResolve(r, ident, user_message, conversation_id) ==
    /\ pc[r] = "idle"
    /\ \A q \in Reqs : q < r => pc[q] # "idle"
    /\ request' = [request EXCEPT ![r] =
                      [kind |-> "chat", user_id |-> ident[1], sub |-> ident[2],
                       message |-> user_message, conversation_id |-> conversation_id]]
    /\ UNCHANGED <<messages, agent_log>>
    /\ IF ~IdentityMatches(ident[1], ident[2])
       THEN /\ Fail(r, HTTP_403_FORBIDDEN, "forbidden")
            /\ UNCHANGED <<conversations, now, ticks, local>>
       ELSE IF MessageStatus(user_message) # 0
       THEN /\ Fail(r, MessageStatus(user_message), "validation")
            /\ UNCHANGED <<conversations, now, ticks, local>>
       ELSE IF ConversationSupplied(conversation_id)
       THEN IF ConversationStatus(conversation_id.v, ident[1]) # 0
            THEN /\ Fail(r, ConversationStatus(conversation_id.v, ident[1]), "not_found")
                 /\ UNCHANGED <<conversations, now, ticks, local>>
            ELSE /\ local' = [local EXCEPT ![r].conversation = conversation_id.v]
                 /\ pc' = [pc EXCEPT ![r] = "store_user"]
                 /\ UNCHANGED <<conversations, now, ticks, response>>
       ELSE \E d \in Advance :
               /\ now' = now + d
               /\ ticks' = ticks + d
               /\ conversations' = create_conversation(Title(user_message), ident[1], now', r)
               /\ local' = [local EXCEPT ![r].conversation = Len(conversations')]
               /\ pc' = [pc EXCEPT ![r] = "store_user"]
               /\ UNCHANGED response

\* the message filed under the conversation_id of the request instead of the id
\* of the resolved conversation
UserMessageCreate_RequestId(r) ==
    [conversation_id |-> IF request[r].conversation_id = None THEN 0
                         ELSE request[r].conversation_id.v,
     role |-> "user",
     content |-> request[r].message]

\* lines 92-96
UserMessageCreate(r) ==
    [conversation_id |-> local[r].conversation, role |-> "user",
     content |-> request[r].message]

\* the user's message not stored before the agent is called
ChatStoreUser_Skipped(r) ==
    /\ pc[r] = "store_user"
    /\ pc' = [pc EXCEPT ![r] = "history"]
    /\ UNCHANGED <<conversations, messages, now, ticks, request, local, response,
                   agent_log>>

\* lines 91-97: the user's message is stored
ChatStoreUser(r) ==
    /\ pc[r] = "store_user"
    /\ \E d \in Advance :
          /\ now' = now + d
          /\ ticks' = ticks + d
          /\ messages' = create_message(UserMessageCreate(r), request[r].user_id, now', r)
    /\ local' = [local EXCEPT ![r].user_db_message = Len(messages')]
    /\ pc' = [pc EXCEPT ![r] = "history"]
    /\ UNCHANGED <<conversations, request, response, agent_log>>

\* the newest message left out of the history: `conversation_history[:-1]`
FormatHistory_DropLast(conversation_history) ==
    [i \in 1..(Len(conversation_history) - 1) |->
        [role |-> conversation_history[i].role,
         content |-> conversation_history[i].content]]

\* lines 101-107
FormatHistory(conversation_history) ==
    [i \in 1..Len(conversation_history) |->
        [role |-> conversation_history[i].role,
         content |-> conversation_history[i].content]]

\* the initialisation error answered with a stored apology of the assistant
ChatLoadHistory_StoresApology(r, agent_ok) ==
    /\ pc[r] = "history"
    /\ local' = [local EXCEPT ![r].conversation_history =
                    get_messages_by_conversation_id(local[r].conversation)]
    /\ IF agent_ok
       THEN /\ agent_log' = Append(agent_log,
                   [turn |-> r, message |-> request[r].message,
                    history |-> FormatHistory(local'[r].conversation_history),
                    user_id |-> request[r].user_id])
            /\ pc' = [pc EXCEPT ![r] = "awaiting"]
            /\ UNCHANGED <<response, messages>>
       ELSE /\ Fail(r, HTTP_500_INTERNAL_SERVER_ERROR, "agent_init")
            /\ messages' = create_message(
                   [conversation_id |-> local[r].conversation, role |-> "assistant",
                    content |-> Repeat("e", 1)], request[r].user_id, now, r)
            /\ UNCHANGED agent_log
    /\ UNCHANGED <<conversations, now, ticks, request>>

\* lines 99-119: the history is loaded, the agent is built and process_message is called
ChatLoadHistory(r, agent_ok) ==
    /\ pc[r] = "history"
    /\ local' = [local EXCEPT ![r].conversation_history =
                    get_messages_by_conversation_id(local[r].conversation)]
    /\ IF agent_ok
       THEN /\ agent_log' = Append(agent_log,
                   [turn |-> r, message |-> request[r].message,
                    history |-> FormatHistory(local'[r].conversation_history),
                    user_id |-> request[r].user_id])
            /\ pc' = [pc EXCEPT ![r] = "awaiting"]
            /\ UNCHANGED response
       ELSE /\ Fail(r, HTTP_500_INTERNAL_SERVER_ERROR, "agent_init")
            /\ UNCHANGED agent_log
    /\ UNCHANGED <<conversations, messages, now, ticks, request>>

\* line 119: process_message returns its result
AgentReturn(r, result) ==
    /\ pc[r] = "awaiting"
    /\ local' = [local EXCEPT ![r].result = result]
    /\ pc' = [pc EXCEPT ![r] = "store_ai"]
    /\ UNCHANGED <<conversations, messages, now, ticks, request, response, agent_log>>

\* the failed call tried again
AgentRaise_Retry(r) ==
    /\ pc[r] = "awaiting"
    /\ agent_log' = Append(agent_log,
           [turn |-> r, message |-> request[r].message,
            history |-> FormatHistory(local[r].conversation_history),
            user_id |-> request[r].user_id])
    /\ UNCHANGED <<conversations, messages, now, ticks, pc, request, local, response>>

\* the failure handled by rolling the turn's user message back
AgentRaise_Rollback(r) ==
    /\ pc[r] = "awaiting"
    /\ Fail(r, HTTP_500_INTERNAL_SERVER_ERROR, "agent_error")
    /\ messages' = SelectSeq(messages, LAMBDA m : m.turn # r)
    /\ UNCHANGED <<conversations, now, ticks, request, local, agent_log>>

\* line 119: process_message raises; nothing in chat catches it
AgentRaise(r) ==
    /\ pc[r] = "awaiting"
    /\ Fail(r, HTTP_500_INTERNAL_SERVER_ERROR, "agent_error")
    /\ UNCHANGED <<conversations, messages, now, ticks, request, local, agent_log>>

\* lines 122-126
AiMessageCreate(r) ==
    [conversation_id |-> local[r].conversation, role |-> "assistant",
     content |-> DictGet(local[r].result, "response", Repeat("x", 0))]

\* the tool records of the agent not handed on
ChatResponse_NoTools(r, user_db_message, ai_db_message) ==
    [conversation_id |-> local[r].conversation,
     user_message_id |-> user_db_message,
     ai_message_id |-> ai_db_message,
     response |-> DictGet(local[r].result, "response", Repeat("x", 0)),
     tool_calls |-> PyList(<<>>),
     tool_results |-> PyList(<<>>)]

\* lines 130-140
ChatResponse(r, user_db_message, ai_db_message) ==
    [conversation_id |-> local[r].conversation,
     user_message_id |-> user_db_message,
     ai_message_id |-> ai_db_message,
     response |-> DictGet(local[r].result, "response", Repeat("x", 0)),
     tool_calls |-> DictGet(local[r].result, "tool_calls", PyList(<<>>)),
     tool_results |-> DictGet(local[r].result, "tool_results", PyList(<<>>))]

\* lines 121-140: the reply is stored and the turn returns
ChatStoreAi(r) ==
    /\ pc[r] = "store_ai"
    /\ \E d \in Advance :
          /\ now' = now + d
          /\ ticks' = ticks + d
          /\ messages' = create_message(AiMessageCreate(r), request[r].user_id, now', r)
    /\ pc' = [pc EXCEPT ![r] = "done"]
    /\ response' = [response EXCEPT ![r] =
                       [status |-> HTTP_200_OK, error |-> "",
                        data |-> ChatResponse(r, local[r].user_db_message, Len(messages'))]]
    /\ UNCHANGED <<conversations, request, local, agent_log>>

\* --------------------------------------------------------- the GET routes
\* datetime.isoformat(): seconds, and the microseconds only when they are not 0
isoformat(t) ==
    IF t % MicrosPerSecond = 0
    THEN <<t \div MicrosPerSecond>>
    ELSE <<t \div MicrosPerSecond, t % MicrosPerSecond>>

\* a < b on the strings isoformat() returns: a string that is a proper prefix
\* of another one is the smaller
IsoBefore(a, b) ==
    \/ a[1] < b[1]
    \/ /\ a[1] = b[1]
       /\ \/ Len(a) = 1 /\ Len(b) = 2
          \/ Len(a) = 2 /\ Len(b) = 2 /\ a[2] < b[2]

\* the key order of list.sort(key=created_at, reverse=...)
KeyBefore(a, b, reverse) ==
    IF reverse THEN IsoBefore(b.created_at, a.created_at)
    ELSE IsoBefore(a.created_at, b.created_at)

RECURSIVE InsertByKey(_, _, _)
InsertByKey(x, sorted, reverse) ==
    IF sorted = <<>> THEN <<x>>
    ELSE IF KeyBefore(x, Head(sorted), reverse) THEN <<x>> \o sorted
    ELSE <<Head(sorted)>> \o InsertByKey(x, Tail(sorted), reverse)

\* result.sort(key=lambda x: x["created_at"], reverse=...): a stable sort, entries
\* with equal keys keep their order, also when reverse is set
RECURSIVE SortByCreatedAt(_, _)
SortByCreatedAt(result, reverse) ==
    IF result = <<>> THEN <<>>
    ELSE InsertByKey(result[Len(result)],
                     SortByCreatedAt(SubSeq(result, 1, Len(result) - 1), reverse),
                     reverse)

\* `reverse=True` left out: the conversations listed oldest first
ConversationsResult_Ascending(user_id) ==
    LET convs == get_conversations_by_user_id(user_id)
        result == [i \in 1..Len(convs) |->
                      [id |-> convs[i].id,
                       created_at |-> isoformat(convs[i].created_at),
                       title |-> convs[i].title]]
    IN SortByCreatedAt(result, FALSE)

\* lines 168-182
ConversationsResult(user_id) ==
    LET convs == get_conversations_by_user_id(user_id)
        result == [i \in 1..Len(convs) |->
                      [id |-> convs[i].id,
                       created_at |-> isoformat(convs[i].created_at),
                       title |-> convs[i].title]]
    IN SortByCreatedAt(result, TRUE)

\* lines 161-182: GET /{user_id}/conversations
get_user_conversations(r, ident) ==
    /\ pc[r] = "idle"
    /\ \A q \in Reqs : q < r => pc[q] # "idle"
    /\ request' = [request EXCEPT ![r] =
                      [kind |-> "conversations", user_id |-> ident[1], sub |-> ident[2],
                       message |-> None, conversation_id |-> None]]
    /\ pc' = [pc EXCEPT ![r] = "done"]
    /\ response' = [response EXCEPT ![r] =
          IF ~IdentityMatches(ident[1], ident[2])
          THEN [status |-> HTTP_403_FORBIDDEN, error |-> "forbidden", data |-> None]
          ELSE [status |-> HTTP_200_OK, error |-> "",
                data |-> PyList(ConversationsResult(ident[1]))]]
    /\ UNCHANGED <<conversations, messages, now, ticks, local, agent_log>>

\* only the user's side of the conversation listed
MessagesResult_UserOnly(conversation_id) ==
    LET msgs == SelectSeq(get_messages_by_conversation_id(conversation_id),
                          LAMBDA m : m.role = "user")
        result == [i \in 1..Len(msgs) |->
                      [id |-> msgs[i].id, role |-> msgs[i].role,
                       content |-> msgs[i].content,
                       created_at |-> isoformat(msgs[i].created_at)]]
    IN SortByCreatedAt(result, FALSE)

\* the listing sorted newest first, as the conversations are
MessagesResult_Descending(conversation_id) ==
    LET msgs == get_messages_by_conversation_id(conversation_id)
        result == [i \in 1..Len(msgs) |->
                      [id |-> msgs[i].id, role |-> msgs[i].role,
                       content |-> msgs[i].content,
                       created_at |-> isoformat(msgs[i].created_at)]]
    IN SortByCreatedAt(result, TRUE)

\* lines 226-241
MessagesResult(conversation_id) ==
    LET msgs == get_messages_by_conversation_id(conversation_id)
        result == [i \in 1..Len(msgs) |->
                      [id |-> msgs[i].id, role |-> msgs[i].role,
                       content |-> msgs[i].content,
                       created_at |-> isoformat(msgs[i].created_at)]]
    IN SortByCreatedAt(result, FALSE)

\* lines 211-241: GET /{user_id}/conversations/{conversation_id}/messages
get_conversation_messages(r, ident, conversation_id) ==
    /\ pc[r] = "idle"
    /\ \A q \in Reqs : q < r => pc[q] # "idle"
    /\ request' = [request EXCEPT ![r] =
                      [kind |-> "messages", user_id |-> ident[1], sub |-> ident[2],
                       message |-> None, conversation_id |-> PyInt(conversation_id)]]
    /\ pc' = [pc EXCEPT ![r] = "done"]
    /\ response' = [response EXCEPT ![r] =
          IF ~IdentityMatches(ident[1], ident[2])
          THEN [status |-> HTTP_403_FORBIDDEN, error |-> "forbidden", data |-> None]
          ELSE IF ConversationStatus(conversation_id, ident[1]) # 0
          THEN [status |-> ConversationStatus(conversation_id, ident[1]),
                error |-> "not_found", data |-> None]
          ELSE [status |-> HTTP_200_OK, error |-> "",
                data |-> PyList(MessagesResult(conversation_id))]]
    /\ UNCHANGED <<conversations, messages, now, ticks, local, agent_log>>

\* ------------------------------------------------------- the specification
Next ==
    \/ \E r \in Reqs, ident \in Identities, m \in MessageInputs,
          c \in ConversationIdInputs : ChatResolve(r, ident, m, c)
    \/ \E r \in Reqs : ChatStoreUser(r)
    \/ \E r \in Reqs, agent_ok \in BOOLEAN : ChatLoadHistory(r, agent_ok)
    \/ \E r \in Reqs, result \in AgentResults : AgentReturn(r, result)
    \/ \E r \in Reqs : AgentRaise(r)
    \/ \E r \in Reqs : ChatStoreAi(r)
    \/ \E r \in Reqs, ident \in Identities : get_user_conversations(r, ident)
    \/ \E r \in Reqs, ident \in Identities, c \in PathConversationIds :
          get_conversation_messages(r, ident, c)

Spec == Init /\ [][Next]_vars

\* ------------------------------------------------- what the claims speak of
Arrived(r) == pc[r] # "idle"
Returned(r) == pc[r] = "done"
IsChat(r) == request[r].kind = "chat"
Authentic(r) == request[r].user_id = request[r].sub
\* the text is a non-empty string of at most MaxMessageLen characters
ValidText(r) ==
    /\ request[r].message.tag = "str"
    /\ PyLen(request[r].message) >= 1
    /\ PyLen(request[r].message) <= MaxMessageLen
\* the chat turn r returned a result
Succeeded(r) == IsChat(r) /\ Returned(r) /\ response[r].status = HTTP_200_OK
\* process_message was called in turn r and raised
AgentFailed(r) == IsChat(r) /\ Returned(r) /\ response[r].error = "agent_error"
\* the rows turn r wrote, in write order
OwnMessages(r) == SelectSeq(messages, LAMBDA m : m.turn = r)
OwnConversations(r) == SelectSeq(conversations, LAMBDA c : c.turn = r)
AgentCalls(r) == SelectSeq(agent_log, LAMBDA a : a.turn = r)
NoWrites(r) == OwnMessages(r) = <<>> /\ OwnConversations(r) = <<>>
\* the conversation a request names exists
NamesExisting(r) ==
    /\ request[r].conversation_id.tag = "int"
    /\ ConversationExists(request[r].conversation_id.v)
\* the request names a conversation id that the handler looks up
LooksUp(r) ==
    /\ Authentic(r)
    /\ \/ request[r].kind = "messages"
       \/ IsChat(r) /\ ValidText(r) /\ ConversationSupplied(request[r].conversation_id)
NotFoundResponse == [status |-> HTTP_404_NOT_FOUND, error |-> "not_found", data |-> None]

\* the position of message id in a listing, 0 if it is not there
PositionOf(listed, id) ==
    IF \E i \in 1..Len(listed) : listed[i].id = id
    THEN CHOOSE i \in 1..Len(listed) : listed[i].id = id
    ELSE 0

C3_CreatesIffNoIdSupplied ==
    \A r \in Reqs : (IsChat(r) /\ Arrived(r) /\ Authentic(r) /\ ValidText(r)) =>
        Len(OwnConversations(r)) = IF request[r].conversation_id = None THEN 1 ELSE 0

\* C4: a request whose path user differs from the token subject is answered 403,
\* has written nothing and has not called the agent.
C4_IdentityMismatchIs403 ==
    \A r \in Reqs : (Arrived(r) /\ ~Authentic(r)) =>
        /\ Returned(r)
        /\ response[r].status = HTTP_403_FORBIDDEN
        /\ response[r].data = None
        /\ NoWrites(r)
        /\ AgentCalls(r) = <<>>

\* a mismatching turn with an invalid body that names a conversation which
\* exists and belongs to the path user
C4_Witness ==
    \E r \in Reqs :
        /\ Returned(r) /\ ~Authentic(r) /\ IsChat(r) /\ ~ValidText(r)
        /\ response[r].status = HTTP_403_FORBIDDEN
        /\ NamesExisting(r)
        /\ conversations[request[r].conversation_id.v].user_id = request[r].user_id
        /\ conversations[request[r].conversation_id.v].turn < r

\* C5: a turn whose text is empty or longer than 1000 characters is answered 400
\* and has written nothing and not called the agent; 1000 characters pass.
C5_ValidationRejectsWithoutWrites ==
    \A r \in Reqs : (IsChat(r) /\ Arrived(r) /\ Authentic(r)) =>
        /\ ~ValidText(r) =>
              /\ Returned(r)
              /\ response[r].status = HTTP_400_BAD_REQUEST
              /\ NoWrites(r)
              /\ AgentCalls(r) = <<>>
        /\ (ValidText(r) /\ Returned(r)) => response[r].status # HTTP_400_BAD_REQUEST
        /\ (ValidText(r) /\ request[r].conversation_id = None) => ~NoWrites(r)

\* a turn of 1001 characters was rejected and a turn of 1000 characters has
\* stored its message
C5_Witness ==
    \E r, q \in Reqs :
        /\ IsChat(r) /\ Authentic(r) /\ Returned(r)
        /\ request[r].message = Repeat("a", MaxMessageLen + 1)
        /\ IsChat(q) /\ Authentic(q)
        /\ request[q].message = Repeat("a", MaxMessageLen)
        /\ OwnMessages(q) # <<>>

\* C6: every stored message lies in an existing conversation whose owner is the
\* authenticated user of the request that wrote the message.
C6_MessagesOnlyInOwnConversations ==
    \A i \in 1..Len(messages) :
        LET m == messages[i]
        IN /\ ConversationExists(m.conversation_id)
           /\ conversations[m.conversation_id].user_id = request[m.turn].sub
           /\ conversations[m.conversation_id].user_id = m.user_id

\* a message written into a conversation that an earlier turn has created
C6_Witness ==
    \E i \in 1..Len(messages) :
        /\ ConversationExists(messages[i].conversation_id)
        /\ conversations[messages[i].conversation_id].turn # messages[i].turn

\* request r arrives in this step and its handler looks a conversation up
ArrivesLookingUp(r) == pc[r] = "idle" /\ pc'[r] # "idle" /\ LooksUp(r)'
\* the looked-up conversation is absent / belongs to somebody else, as the
\* handler finds it
Absent(r) == ~ConversationExists(request'[r].conversation_id.v)
Foreign(r) ==
    /\ ConversationExists(request'[r].conversation_id.v)
    /\ conversations[request'[r].conversation_id.v].user_id # request'[r].user_id

\* C7: a turn or a message listing by user A that names a conversation of user B
\* gets the very answer given for an id that does not exist, 404, and writes
\* nothing.
C7_ForeignConversationIs404 ==
    [][\A r \in Reqs : (ArrivesLookingUp(r) /\ (Absent(r) \/ Foreign(r))) =>
          /\ pc'[r] = "done"
          /\ response'[r] = NotFoundResponse
          /\ UNCHANGED <<conversations, messages, agent_log>>]_vars

\* user A has asked for the messages of a conversation that user B had created
\* before, and was answered 404
C7_Witness ==
    \E r \in Reqs :
        /\ request[r].kind = "messages"
        /\ Returned(r) /\ LooksUp(r) /\ NamesExisting(r)
        /\ conversations[request[r].conversation_id.v].user_id # request[r].user_id
        /\ conversations[request[r].conversation_id.v].turn < r
        /\ response[r].status = HTTP_404_NOT_FOUND

\* C8 as the specification states it: in a turn an absent conversation is
\* answered 404 and a conversation of another owner 403.
C8_Original ==
    [][\A r \in Reqs : (ArrivesLookingUp(r) /\ IsChat(r)') =>
          /\ Absent(r) => response'[r].status = HTTP_404_NOT_FOUND
          /\ Foreign(r) => response'[r].status = HTTP_403_FORBIDDEN]_vars

\* C8, amended: in a turn with a non-zero conversation_id an absent conversation
\* and a conversation of another owner are both answered 404, any other
\* conversation passes; a turn is answered 403 only when the path user differs
\* from the token subject.
C8_AbsentAndForeignBoth404 ==
    [][\A r \in Reqs : (pc[r] = "idle" /\ pc'[r] # "idle" /\ IsChat(r)') =>
          /\ response'[r].status = HTTP_403_FORBIDDEN <=> ~Authentic(r)'
          /\ LooksUp(r)' =>
                /\ response'[r].status = HTTP_404_NOT_FOUND <=> (Absent(r) \/ Foreign(r))
                /\ response'[r].status # HTTP_404_NOT_FOUND =>
                      /\ pc'[r] = "store_user"
                      /\ local'[r].conversation = request'[r].conversation_id.v]_vars

\* a turn that named a conversation another user had created before has been
\* answered 404
C8_Witness ==
    \E r \in Reqs :
        /\ IsChat(r) /\ Returned(r) /\ LooksUp(r) /\ NamesExisting(r)
        /\ conversations[request[r].conversation_id.v].user_id # request[r].user_id
        /\ conversations[request[r].conversation_id.v].turn < r
        /\ response[r] = NotFoundResponse

\* C9 as the specification states it: the history handed to the agent ends with
\* the user message of the turn, also when turns run concurrently.
C9_Original ==
    \A k \in 1..Len(agent_log) :
        LET r == agent_log[k].turn
            h == local[r].conversation_history
        IN /\ h # <<>>
           /\ h[Len(h)].id = local[r].user_db_message

\* C9, amended: the history handed to the agent is loaded after the turn's user
\* message was written and contains it; whatever follows it in the history was
\* written later by another turn.
C9_HistoryHoldsOwnUserMessage ==
    \A k \in 1..Len(agent_log) :
        LET r == agent_log[k].turn
            h == local[r].conversation_history
            u == PositionOf(h, local[r].user_db_message)
        IN /\ u > 0
           /\ Len(agent_log[k].history) = Len(h)
           /\ agent_log[k].history[u] = [role |-> "user", content |-> request[r].message]
           /\ \A j \in 1..Len(h) :
                 /\ agent_log[k].history[j] = [role |-> h[j].role, content |-> h[j].content]
                 /\ j > u => (h[j].turn # r /\ h[j].id > h[u].id)
                 /\ j < u => h[j].id < h[u].id

\* the agent was handed a history in which a message of another turn follows
\* the turn's own user message
C9_Witness ==
    \E k \in 1..Len(agent_log) :
        LET r == agent_log[k].turn
            h == local[r].conversation_history
        IN h # <<>> /\ h[Len(h)].turn # r

\* C10: the conversation named in a turn's result holds a message from then on;
\* if the turn created the conversation, it holds the turn's user message.
C10_ReturnedConversationNotEmpty ==
    \A r \in Reqs : Succeeded(r) =>
        LET cid == response[r].data.conversation_id
        IN /\ ConversationExists(cid)
           /\ \E i \in 1..Len(messages) : messages[i].conversation_id = cid
           /\ conversations[cid].turn = r =>
                 \E i \in 1..Len(messages) :
                    /\ messages[i].conversation_id = cid
                    /\ messages[i].turn = r
                    /\ messages[i].role = "user"

\* a turn has returned a conversation it created itself
C10_Witness ==
    \E r \in Reqs : /\ Succeeded(r)
                    /\ ConversationExists(response[r].data.conversation_id)
                    /\ conversations[response[r].data.conversation_id].turn = r

\* the agent could not be built in turn r
ConfigFailed(r) == IsChat(r) /\ Returned(r) /\ response[r].error = "agent_init"

\* C11: when the agent cannot be built, the turn is answered 500,
\* process_message has not been called and the turn has stored no assistant
\* message: all it has stored is its user message.
C11_InitFailureCallsNothingStoresNoReply ==
    \A r \in Reqs : ConfigFailed(r) =>
        LET own == OwnMessages(r)
        IN /\ response[r].status = HTTP_500_INTERNAL_SERVER_ERROR
           /\ response[r].data = None
           /\ AgentCalls(r) = <<>>
           /\ local[r].result = None
           /\ \A i \in 1..Len(own) : own[i].role # "assistant"
           /\ Len(own) = 1
           /\ own[1].role = "user" /\ own[1].id = local[r].user_db_message

\* the agent could not be built in a turn on a conversation in which another
\* turn got a reply
C11_Witness ==
    \E r \in Reqs :
        /\ ConfigFailed(r)
        /\ \E i \in 1..Len(messages) :
              /\ messages[i].conversation_id = local[r].conversation
              /\ messages[i].role = "assistant"

\* the title the specification gives a conversation created for text
ExpectedTitle(text) ==
    IF PyLen(text) <= 50 THEN text
    ELSE PyStr(<<[ch |-> text.runs[1].ch, n |-> 50], [ch |-> ".", n |-> 3]>>)

\* C12: the title of a conversation is the text of the turn that created it if
\* the text has at most 50 characters, else its first 50 characters followed by
\* "..."; no step changes the title (or anything else) of a conversation.
C12_TitleFromTextAndKept ==
    [][/\ \A i \in 1..Len(conversations') :
             /\ conversations'[i].title = ExpectedTitle(request'[conversations'[i].turn].message)
             /\ PyLen(conversations'[i].title) <= TitleLen + 3
       /\ Len(conversations') >= Len(conversations)
       /\ \A i \in 1..Len(conversations) : conversations'[i] = conversations[i]]_vars

\* conversations created for texts of 50, 51 and 1000 characters are all
\* possible; this one has a truncated title and a message stored after it
C12_Witness ==
    \E i \in 1..Len(conversations) :
        /\ PyLen(request[conversations[i].turn].message) = TitleLen + 1
        /\ PyLen(conversations[i].title) = TitleLen + 3
        /\ \E k \in 1..Len(messages) : messages[k].conversation_id = i

\* the text the agent supplied: "" when it supplied none
SuppliedText(result) ==
    IF result.response = Missing \/ result.response = None
    THEN PyStr(<<>>)
    ELSE result.response

\* C13: on a successful turn the response text and the content of the stored
\* assistant message are the agent's text, and are "" (never None) when the
\* response key is missing or its value is None.
C13_ReplyTextNeverNull ==
    \A r \in Reqs : Succeeded(r) =>
        /\ response[r].data.response = SuppliedText(local[r].result)
        /\ messages[response[r].data.ai_message_id].content = SuppliedText(local[r].result)
        /\ response[r].data.response # None
        /\ messages[response[r].data.ai_message_id].content # None

\* the users whose conversations can be listed
PathUsers == {ident[1] : ident \in Identities}
\* the listing holds one entry for each conversation of user_id that a turn
\* before `upto` created, and nothing else
ListsConversationsOf(listed, user_id, upto) ==
    /\ \A i \in 1..Len(listed) :
          /\ ConversationExists(listed[i].id)
          /\ conversations[listed[i].id].user_id = user_id
          /\ conversations[listed[i].id].turn < upto
          /\ listed[i].title = conversations[listed[i].id].title
          /\ \A j \in 1..Len(listed) : listed[j].id = listed[i].id => j = i
    /\ \A c \in 1..Len(conversations) :
          (conversations[c].user_id = user_id /\ conversations[c].turn < upto)
             => \E i \in 1..Len(listed) : listed[i].id = c
\* newest first; Strict: no two entries of the same time
NewestFirst(listed, Strict) ==
    \A i, j \in 1..Len(listed) : i < j =>
        IF Strict
        THEN conversations[listed[i].id].created_at > conversations[listed[j].id].created_at
        ELSE conversations[listed[i].id].created_at >= conversations[listed[j].id].created_at
\* what get_user_conversations has answered so far
ConversationListings ==
    {r \in Reqs : request[r].kind = "conversations" /\ Authentic(r) /\ Returned(r)}

\* C14 as the specification states it: the listing holds exactly the caller's
\* conversations, strictly descending by created_at.
C14_Original ==
    /\ \A u \in PathUsers :
          /\ ListsConversationsOf(ConversationsResult(u), u, MaxReqs + 1)
          /\ NewestFirst(ConversationsResult(u), TRUE)
    /\ \A r \in ConversationListings :
          /\ response[r].status = HTTP_200_OK
          /\ ListsConversationsOf(response[r].data.items, request[r].user_id, r)
          /\ NewestFirst(response[r].data.items, TRUE)

\* C14, amended: the listing holds exactly the caller's conversations,
\* descending by created_at; conversations of the same created_at are listed
\* next to each other.
C14_OwnConversationsNewestFirst ==
    /\ \A u \in PathUsers :
          /\ ListsConversationsOf(ConversationsResult(u), u, MaxReqs + 1)
          /\ NewestFirst(ConversationsResult(u), FALSE)
    /\ \A r \in ConversationListings :
          /\ response[r].status = HTTP_200_OK
          /\ ListsConversationsOf(response[r].data.items, request[r].user_id, r)
          /\ NewestFirst(response[r].data.items, FALSE)

\* a user has two conversations of different times, which the listing must
\* turn around
C14_Witness ==
    \E u \in PathUsers :
        /\ Len(ConversationsResult(u)) = 2
        /\ ConversationsResult(u)[1].id = 2
        /\ conversations[1].created_at < conversations[2].created_at

\* the listing holds one entry for each of the first n stored messages that
\* belongs to the conversation, and nothing else
ListsMessagesOf(listed, conversation_id, n) ==
    /\ \A i \in 1..Len(listed) :
          /\ listed[i].id \in 1..n
          /\ messages[listed[i].id].conversation_id = conversation_id
          /\ \A j \in 1..Len(listed) : listed[j].id = listed[i].id => j = i
    /\ \A k \in 1..n :
          messages[k].conversation_id = conversation_id
             => \E i \in 1..Len(listed) : listed[i].id = k
\* oldest first; Strict: no two entries of the same time
OldestFirst(listed, Strict) ==
    \A i, j \in 1..Len(listed) : i < j =>
        IF Strict
        THEN messages[listed[i].id].created_at < messages[listed[j].id].created_at
        ELSE messages[listed[i].id].created_at <= messages[listed[j].id].created_at
\* what get_conversation_messages has answered so far
MessageListings ==
    {r \in Reqs : request[r].kind = "messages" /\ response[r].status = HTTP_200_OK}

\* C15 as the specification states it: the listing of a conversation holds
\* exactly its messages, strictly ascending by created_at.
C15_Original ==
    \A c \in 1..Len(conversations) :
        LET listed == MessagesResult(c)
        IN /\ ListsMessagesOf(listed, c, Len(messages))
           /\ OldestFirst(listed, TRUE)

\* C15, amended: the listing of a conversation holds exactly its messages,
\* ascending by created_at; messages of the same created_at are listed next to
\* each other. An answer given earlier holds exactly the messages the
\* conversation had when it was given.
C15_AllMessagesOldestFirst ==
    /\ \A c \in 1..Len(conversations) :
          LET listed == MessagesResult(c)
          IN /\ ListsMessagesOf(listed, c, Len(messages))
             /\ OldestFirst(listed, FALSE)
    /\ \A r \in MessageListings :
          LET listed == response[r].data.items
          IN /\ \E n \in 0..Len(messages) :
                   ListsMessagesOf(listed, request[r].conversation_id.v, n)
             /\ OldestFirst(listed, FALSE)
    /\ \A r \in Reqs :
          (request[r].kind = "messages" /\ Returned(r) /\ Authentic(r)
           /\ response[r].status # HTTP_200_OK) =>
              \/ ~ConversationExists(request[r].conversation_id.v)
              \/ conversations[request[r].conversation_id.v].user_id # request[r].user_id
              \/ conversations[request[r].conversation_id.v].turn > r

\* two turns have interleaved on one conversation and their four messages were
\* not all written at the same time
C15_Witness ==
    \E c \in 1..Len(conversations) :
        /\ Len(MessagesResult(c)) = 4
        /\ messages[1].turn # messages[2].turn
        /\ messages[1].created_at < messages[4].created_at

C17_ListedAsWritten ==
    /\ \A k \in 1..Len(messages) :
          LET listed == MessagesResult(messages[k].conversation_id)
              at == PositionOf(listed, k)
          IN /\ at > 0
             /\ listed[at].role = messages[k].role
             /\ listed[at].content = messages[k].content
             /\ messages[k].role = "user" =>
                   listed[at].content = request[messages[k].turn].message
             /\ messages[k].role = "assistant" =>
                   listed[at].content = DictGet(local[messages[k].turn].result,
                                                "response", PyStr(<<>>))
             /\ Cardinality({i \in 1..Len(listed) : listed[i].id = k}) = 1
    /\ \A r \in Reqs :
          (request[r].kind = "messages" /\ response[r].status = HTTP_200_OK) =>
             \A i \in 1..Len(response[r].data.items) :
                LET e == response[r].data.items[i]
                IN /\ e.id \in 1..Len(messages)
                   /\ e.role = messages[e.id].role
                   /\ e.content = messages[e.id].content

\* get_conversation_messages has returned both messages of a finished turn
C17_Witness ==
    \E r \in Reqs :
        /\ request[r].kind = "messages" /\ response[r].status = HTTP_200_OK
        /\ Len(response[r].data.items) = 2
        /\ response[r].data.items[2].role = "assistant"

\* the checks of lines 50-83 hold of turn r and its conversation
ChecksPassed(r) ==
    /\ Authentic(r) /\ ValidText(r)
    /\ ConversationExists(local[r].conversation)
    /\ conversations[local[r].conversation].user_id = request[r].user_id
    /\ ConversationSupplied(request[r].conversation_id) =>
          local[r].conversation = request[r].conversation_id.v
    /\ ~ConversationSupplied(request[r].conversation_id) =>
          conversations[local[r].conversation].turn = r
OwnRoles(r) == [i \in 1..Len(OwnMessages(r)) |-> OwnMessages(r)[i].role]
AgentHasReturned(r) == local[r].result # None
HistoryLoaded(r) ==
    PositionOf(local[r].conversation_history, local[r].user_db_message) > 0

\* C18: a turn takes its steps in one order: the checks, the conversation, the
\* user message, the history, the agent call, the assistant message, the
\* answer. What a later step leaves behind is there only if every earlier step
\* was taken.
C18_StepsInOrder ==
    \A r \in Reqs : IsChat(r) =>
        /\ (OwnConversations(r) # <<>> \/ OwnMessages(r) # <<>>) => ChecksPassed(r)
        /\ Len(OwnConversations(r)) <= 1
        /\ OwnMessages(r) # <<>> => local[r].user_db_message = OwnMessages(r)[1].id
        /\ HistoryLoaded(r) => OwnMessages(r) # <<>>
        /\ AgentCalls(r) # <<>> => (HistoryLoaded(r) /\ OwnRoles(r)[1] = "user")
        /\ AgentHasReturned(r) => AgentCalls(r) # <<>>
        /\ OwnRoles(r) \in {<<>>, <<"user">>, <<"user", "assistant">>}
        /\ Len(OwnMessages(r)) = 2 => AgentHasReturned(r)
        /\ Succeeded(r) <=> Len(OwnMessages(r)) = 2

\* the agent is at work on a turn whose user message is stored, and a finished
\* turn has both of its messages stored
C18_Witness ==
    \E r, q \in Reqs :
        /\ IsChat(r) /\ pc[r] = "awaiting" /\ OwnRoles(r) = <<"user">>
        /\ Succeeded(q) /\ OwnRoles(q) = <<"user", "assistant">>

\* a is the beginning of b
IsPrefix(a, b) == Len(a) <= Len(b) /\ SubSeq(b, 1, Len(a)) = a
\* the messages turn r is to have appended, given how it ended
AppendsOf(r) ==
    IF Succeeded(r) THEN 2
    ELSE IF AgentFailed(r) \/ ConfigFailed(r) THEN 1
    ELSE 0
\* the messages the turns 1..n are to have appended
RECURSIVE SumOfAppends(_)
SumOfAppends(n) == IF n = 0 THEN 0 ELSE AppendsOf(n) + SumOfAppends(n - 1)

\* C19: however the turns interleave, a step only appends to the two tables
\* and leaves every row as it was; once all requests have ended, the number of
\* messages is 2 for every successful turn plus 1 for every turn whose agent
\* failed; a turn's user message is written before its assistant message.
C19_AppendOnlyUnderInterleaving ==
    [][/\ IsPrefix(messages, messages')
       /\ IsPrefix(conversations, conversations')
       /\ Len(messages') <= Len(messages) + 1
       /\ \A k \in 1..Len(messages') : messages'[k].id = k
       /\ (\A r \in Reqs : pc'[r] = "done") =>
             Len(messages') = SumOfAppends(MaxReqs)'
       /\ \A r \in Reqs : Succeeded(r)' =>
             /\ messages'[response'[r].data.user_message_id].role = "user"
             /\ messages'[response'[r].data.ai_message_id].role = "assistant"
             /\ response'[r].data.user_message_id < response'[r].data.ai_message_id]_vars

\* two successful turns on one conversation whose messages lie crosswise: user,
\* user, then the two replies
C19_Witness ==
    /\ \A r \in Reqs : Succeeded(r)
    /\ Len(messages) = 4
    /\ messages[1].turn # messages[2].turn
    /\ messages[2].conversation_id = messages[1].conversation_id
    /\ messages[2].role = "user"

\* the messages of a conversation that have the given role and content
InConversation(conversation_id, role, content) ==
    {k \in 1..Len(messages) :
        /\ messages[k].conversation_id = conversation_id
        /\ messages[k].role = role
        /\ messages[k].content = content}
\* turn r failed at the agent and turn q, sent later with the same text on the
\* same conversation, succeeded
Resubmitted(r, q) ==
    /\ r < q /\ AgentFailed(r) /\ Succeeded(q)
    /\ request[q].message = request[r].message
    /\ local[q].conversation = local[r].conversation

\* C20: process_message is called at most once in a turn, a failed call
\* included; a turn sent again with the same text stores a user message of its
\* own, so that a failed turn and its successful resubmission leave two user
\* messages with that text and one assistant message in the conversation.
C20_NoRetryNoDuplicateSuppression ==
    /\ \A r \in Reqs : Len(AgentCalls(r)) <= 1
    /\ \A r \in Reqs : AgentFailed(r) => Len(AgentCalls(r)) = 1
    /\ \A r, q \in Reqs : Resubmitted(r, q) =>
          LET c == local[r].conversation
              others == {k \in 1..Len(messages) :
                            messages[k].conversation_id = c /\ messages[k].turn \notin {r, q}}
          IN /\ local[r].user_db_message # local[q].user_db_message
             /\ others = {} =>
                   /\ Cardinality(InConversation(c, "user", request[r].message)) = 2
                   /\ Cardinality({k \in 1..Len(messages) :
                                      /\ messages[k].conversation_id = c
                                      /\ messages[k].role = "assistant"}) = 1
                   /\ Cardinality({k \in 1..Len(messages) :
                                      messages[k].conversation_id = c}) = 3

\* a turn failed at the agent, had ended when its text was sent again on the
\* same conversation, and the second turn succeeded
C20_Witness ==
    \E r, q \in Reqs :
        /\ Resubmitted(r, q)
        /\ local[r].user_db_message < local[q].user_db_message
        /\ Len(local[q].conversation_history) = 2
====
